---- MODULE Spec2Model ----
(***************************************************************************)
(* Session / field correlation engine of internalstack/server              *)
(* (src/src/index.ts, the variant that starts at line 834).                *)
(*                                                                         *)
(* The engine is single threaded.  One action of this module is one run of *)
(* the event loop from a macrotask to the next point where the code waits  *)
(* for something outside the engine: an inbound websocket message, a timer *)
(* (setImmediate), a caller-supplied asynchronous function (custom         *)
(* validator, query, the workflow itself).  Everything the code does in    *)
(* between, through synchronous calls and already-settled promises, is     *)
(* part of the same action.                                                *)
(***************************************************************************)
EXTENDS Integers, Sequences, FiniteSets, Bags, TLC

\* ------------------------------------------------------------------ bounds
MaxFields == 2
MaxEvents == 2
MaxGroupCalls == 2

\* ------------------------------------------------------------- JS values
\* A JavaScript value is a record [t |-> typeof-like tag, v |-> its text].
JsStr(s) == [t |-> "string", v |-> s]
JsTrue == [t |-> "boolean", v |-> "true"]
JsNull == [t |-> "null", v |-> ""]
JsUndefined == [t |-> "undefined", v |-> ""]
JsArr(s) == [t |-> "array", v |-> s]
JsFalse == [t |-> "boolean", v |-> "false"]
JsNum(s) == [t |-> "number", v |-> s]
\* An object keeps its properties in `o`.
JsObj(r) == [t |-> "object", v |-> "", o |-> r]

\* !input
Falsy(x) ==
    \/ x.t \in {"null", "undefined"}
    \/ x.t = "string" /\ x.v = ""
    \/ x.t = "number" /\ x.v \in {"0", "NaN"}
    \/ x.t = "boolean" /\ x.v = "false"

\* The values the peer submits in resolve messages.
InputValues == {JsStr("Hello"), JsNull, JsArr("r1")}

\* The data the peer sends in patch messages.
PatchData == {JsStr("He")}

Sessions == {"s1", "s2"}

Kinds == {"text", "autocomplete", "address", "table"}

\* The options of a field operation that the engine's control flow reads.
\* pick: options.pick is supplied (address); apiKey: googleMapsApiKey is
\* not empty (address).  An address field is called either with a key and
\* without pick, or with pick and without a key.
FieldSpecs ==
    {sp \in [kind : Kinds, filterable : BOOLEAN, custom : BOOLEAN,
              pick : BOOLEAN, apiKey : BOOLEAN] :
        /\ sp.filterable <=> sp.kind = "table"
        /\ sp.custom => sp.kind = "text"
        /\ sp.pick => sp.kind = "address"
        /\ ~sp.apiKey => sp.kind = "address"
        /\ sp.pick <=> ~sp.apiKey}

\* ------------------------------------------------------------ validators
textDefaultValidator(input) ==
    IF input.t # "string" THEN JsStr("Expected string")
    ELSE IF Falsy(input) THEN JsStr("Required")
    ELSE JsTrue

numberDefaultValidator(input) ==
    IF input.t # "number" THEN JsStr("Invalid number") ELSE JsTrue

\* The characters of the strings the validators are applied to.
Chars(s) ==
    CASE s = "" -> <<>>
      [] s = "a" -> <<"a">>
      [] s = "@" -> <<"@">>
      [] s = "ab" -> <<"a", "b">>
      [] s = "a@b" -> <<"a", "@", "b">>
      [] s = "Hello" -> <<"H", "e", "l", "l", "o">>

\* input.includes(ch)
includes(s, ch) == \E i \in DOMAIN Chars(s) : Chars(s)[i] = ch

\* An email validator that accepts every non-empty string.
emailDefaultValidator_AnyString(input) ==
    IF input.t # "string" THEN JsStr("Expected string")
    ELSE IF input.v # "" THEN JsTrue
    ELSE JsStr("Invalid email address")

emailDefaultValidator(input) ==
    IF input.t # "string" THEN JsStr("Expected string")
    ELSE IF includes(input.v, "@") THEN JsTrue
    ELSE JsStr("Invalid email address")

\* jsonValueValidator accepts every value JSON can carry; null is refused
\* before it is consulted.
autocompleteDefaultValidator(input) ==
    IF input.t = "null" THEN JsStr("Required")
    ELSE IF input.t \in {"string", "number", "boolean", "array", "object"}
         THEN JsTrue
    ELSE JsStr("Invalid input")

addressDefaultValidator(input) ==
    IF Falsy(input) THEN JsStr("Required") ELSE JsTrue

tableDefaultValidator(input) ==
    IF input.t # "array" THEN JsStr("Expected array")
    ELSE IF input.v = "" THEN JsStr("Required")
    ELSE JsTrue

defaultValidator(kind, input) ==
    CASE kind = "text" -> textDefaultValidator(input)
      [] kind = "autocomplete" -> autocompleteDefaultValidator(input)
      [] kind = "address" -> addressDefaultValidator(input)
      [] kind = "table" -> tableDefaultValidator(input)
      [] kind = "number" -> numberDefaultValidator(input)
      [] kind = "email" -> emailDefaultValidator(input)

\* What a caller-supplied validator may answer: true or a reason.
CustomResults == {JsTrue, JsStr("Rejected by custom validator")}

\* ValidatorOf that always takes the type's default.
ValidatorOf_IgnoresCustom(sp) == [custom |-> FALSE, kind |-> sp.kind]

\* options?.customValidator || defaultValidator
ValidatorOf(sp) ==
    IF sp.custom THEN [custom |-> TRUE, kind |-> "custom"]
    ELSE [custom |-> FALSE, kind |-> sp.kind]

\* The caller-supplied fetch function, as a function of the event's data.
Query(data) == JsArr(data.v)

\* The caller-supplied projection options.pick of an address field.
pick(result) == JsObj([picked |-> result])

MissingApiKey == JsStr("Missing Google Maps API key")

\* --------------------------------------------------------------- workflows
\* The callback given to statefulSession: what it awaits, in order.  Each
\* step is one standalone field operation or one group call whose builder
\* calls the listed field operations.
FieldOp(sp) == [type |-> "field", sps |-> <<sp>>]
GroupOp(sps) == [type |-> "group", sps |-> sps]
\* The callback throws (a caller-supplied function or option parsing raised):
\* the promise it returned rejects.
ThrowOp == [type |-> "throw", sps |-> <<>>]

\* `const h = await io.display[kind](...)`, and a call of a method of the
\* handle h that the latest display call of the callback returned.
DisplayKinds == {"progress", "loading", "heading", "paragraph"}
DisplaySpec(kind) ==
    [kind |-> kind, filterable |-> FALSE, custom |-> FALSE, pick |-> FALSE,
     apiKey |-> TRUE]
DisplayOp(kind) == [type |-> "display", sps |-> <<DisplaySpec(kind)>>]
HandleOp(method) == [type |-> "handle", sps |-> <<>>, method |-> method]

\* The methods of the handle a display operation returns.
Methods(kind) ==
    CASE kind = "progress" -> {"increment", "destroy"}
      [] kind = "loading" -> {"updateMessage", "destroy"}
      [] OTHER -> {"destroy"}

\* The message a callback hands to updateMessage.
LoadingMessage == JsObj([label |-> "Hello"])

Programs ==
    {[i \in 1..n |-> FieldOp(sp)] : sp \in FieldSpecs, n \in 0..MaxFields}
    \cup {<<GroupOp([i \in 1..n |-> sp])>> :
             sp \in FieldSpecs, n \in 0..MaxFields}
    \cup {<<ThrowOp>>}
    \cup {<<FieldOp(sp), ThrowOp>> : sp \in FieldSpecs}

RECURSIVE FieldsOf(_)
FieldsOf(p) ==
    IF p = <<>> THEN 0 ELSE Len(Head(p).sps) + FieldsOf(Tail(p))

\* ------------------------------------------------------------------ state
VARIABLES
    program,          \* the callback registered with statefulSession
    out,              \* every ws.send of a JSON command, in order
    fields,           \* field operations called so far, by fieldId
    fieldValidators,  \* Map fieldId -> validator
    listeners,        \* eventEmitter's listener table, a bag of listeners
    validating,       \* custom validators awaited by the message handler
    fetching,         \* query calls awaited by patch listeners
    wf,               \* invocations of the workflow callback
    groups,           \* group calls
    resolved,         \* fieldIds in the order their operations resolved
    verbose,          \* options?.verbose !== false
    wsState,          \* the transport: "open", "error" (an error event went
                      \* by unheard), "fatal" (the error listener threw)
    input,            \* the arguments handed to a pure function
    verdicts,         \* what the function answered for input, by call
    sessionStepStates \* earlier variant: Map sessionId -> the fieldId of
                      \* the field operation the session called last

vars == <<program, out, fields, fieldValidators, listeners, validating, fetching,
          wf, groups, resolved, verbose, wsState, input, verdicts,
          sessionStepStates>>

\* The state as one value, so that the steps of a handler compose.
Cur ==
    [out |-> out, fields |-> fields, fieldValidators |-> fieldValidators,
     listeners |-> listeners, validating |-> validating,
     fetching |-> fetching, wf |-> wf, groups |-> groups,
     resolved |-> resolved, sessionStepStates |-> sessionStepStates]

Commit(E) ==
    /\ program' = program
    /\ out' = E.out
    /\ fields' = E.fields
    /\ fieldValidators' = E.fieldValidators
    /\ listeners' = E.listeners
    /\ validating' = E.validating
    /\ fetching' = E.fetching
    /\ wf' = E.wf
    /\ groups' = E.groups
    /\ resolved' = E.resolved
    /\ sessionStepStates' = E.sessionStepStates
    /\ UNCHANGED <<verbose, wsState, input, verdicts>>

\* ---------------------------------------------------------------- helpers
MapSet(m, k, x) == [y \in DOMAIN m \cup {k} |-> IF y = k THEN x ELSE m[y]]
MapDelete(m, k) == [y \in DOMAIN m \ {k} |-> m[y]]

RemoveAt(q, i) == [j \in 1..(Len(q) - 1) |-> IF j < i THEN q[j] ELSE q[j + 1]]

Msg(action, sessionId, fieldId, data) ==
    [action |-> action, sessionId |-> sessionId, fieldId |-> fieldId,
     data |-> data]

\* ws.send(JSON.stringify(m))
send(E, m) == [E EXCEPT !.out = Append(@, m)]

eventId(sessionId, fieldId, type) ==
    [sessionId |-> sessionId, id |-> fieldId, type |-> type]

\* A group key made of the sessionId alone.
groupEventId_SessionOnly(sessionId, groupId) ==
    [sessionId |-> sessionId, id |-> 0, type |-> "group"]

\* `${sessionId}:${groupId}`
groupEventId(sessionId, groupId) ==
    [sessionId |-> sessionId, id |-> groupId, type |-> "group"]

\* once that registers the listener twice.
once_Twice(E, key) ==
    [E EXCEPT !.listeners = (@ (+) SetToBag({[key |-> key, once |-> TRUE]}))
                               (+) SetToBag({[key |-> key, once |-> TRUE]})]

\* eventEmitter.once / eventEmitter.on
once(E, key) ==
    [E EXCEPT !.listeners = @ (+) SetToBag({[key |-> key, once |-> TRUE]})]
on(E, key) ==
    [E EXCEPT !.listeners = @ (+) SetToBag({[key |-> key, once |-> FALSE]})]
removeAllListeners(E, key) ==
    [E EXCEPT !.listeners = [l \in {x \in DOMAIN @ : x.key # key} |-> @[l]]]
listenersOf(E, key) == {l \in BagToSet(E.listeners) : l.key = key}

\* eventEmitter.listenerCount(key)
listenerCount(E, key) ==
    LET ls == listenersOf(E, key)
    IN  BagCardinality([l \in ls |-> E.listeners[l]])

IsResolved(E, f) == E.fields[f].status = "resolved"

\* ----------------------------------------------------- field lifecycle
\* renderFieldInForm(sessionId, params): the render message.  The id it
\* draws from nanoid() is the field's index in `fields`, which is fresh.
renderFieldInForm(E, sessionId, fieldId, type) ==
    send(E, Msg("render", sessionId, fieldId, JsStr(type)))

\* The type an operation passes to renderFieldInForm.
RenderType(kind) == IF kind = "address" THEN "autocomplete" ELSE kind

\* Whether the operation subscribes to patch events of its field.
OpensPatchChannel(fld) ==
    \/ fld.kind \in {"autocomplete", "address"}
    \/ fld.kind = "table" /\ fld.filterable

\* register that renders and sets the validator but registers no waiter.
register_NoWaiter(E, f) ==
    LET fld == E.fields[f]
        E1 == send(E, Msg("render", fld.sessionId, f,
                          JsStr(IF fld.kind = "address" THEN "autocomplete"
                                ELSE fld.kind)))
        E2 == [E1 EXCEPT !.fieldValidators =
                  MapSet(@, f, [custom |-> fld.custom,
                                kind |-> IF fld.custom THEN "custom"
                                         ELSE fld.kind])]
    IN  [E2 EXCEPT !.fields[f].status = "waiting"]

\* A field operation from renderFieldInForm to its await of waitForEvent:
\* render, patch listener, validator, waiter.
register(E, f) ==
    LET fld == E.fields[f]
        E1 == renderFieldInForm(E, fld.sessionId, f, RenderType(fld.kind))
        E2 == IF OpensPatchChannel(fld)
              THEN on(E1, eventId(fld.sessionId, f, "patch"))
              ELSE E1
        E3 == [E2 EXCEPT !.fieldValidators = MapSet(@, f, ValidatorOf(fld))]
        E4 == once(E3, eventId(fld.sessionId, f, "resolve"))
    IN  [E4 EXCEPT !.fields[f].status = "waiting"]

\* A call of elements(sessionId, isStandalone).input[kind], up to its first
\* await.  Table awaits the caller's query before it renders.
callField(E, sessionId, sp, isStandalone, groupId) ==
    LET f == Len(E.fields) + 1
        fld == [sessionId |-> sessionId, kind |-> sp.kind,
                filterable |-> sp.filterable, custom |-> sp.custom,
                pick |-> sp.pick, apiKey |-> sp.apiKey, counter |-> 0,
                standalone |-> isStandalone, group |-> groupId,
                status |-> "querying", result |-> JsUndefined]
        E1 == [E EXCEPT !.fields = Append(@, fld)]
    IN  IF sp.kind = "table" THEN E1 ELSE register(E1, f)

\* A call of elements(sessionId, isStandalone).display[kind]: the element is
\* rendered; the promise the call returns is fulfilled with the handle.
showElement(E, sessionId, kind, isStandalone, groupId) ==
    LET f == Len(E.fields) + 1
        fld == [sessionId |-> sessionId, kind |-> kind,
                filterable |-> FALSE, custom |-> FALSE,
                pick |-> FALSE, apiKey |-> TRUE, counter |-> 0,
                standalone |-> isStandalone, group |-> groupId,
                status |-> "display", result |-> JsUndefined]
    IN  renderFieldInForm([E EXCEPT !.fields = Append(@, fld)],
                          sessionId, f, kind)

\* waiterCallback with the patch listener of autocomplete and address left
\* registered.
waiterCallback_KeepsPatchListener(E, f) ==
    LET fld == E.fields[f]
    IN  IF fld.kind \in {"autocomplete", "address"}
        THEN E
        ELSE IF fld.standalone
             THEN send(E, Msg("destroy", fld.sessionId, f, JsUndefined))
             ELSE E

\* waiterCallback without the isStandalone guard.
waiterCallback_AlwaysDestroy(E, f) ==
    LET fld == E.fields[f]
    IN  IF fld.kind \in {"autocomplete", "address"}
        THEN removeAllListeners(E, eventId(fld.sessionId, f, "patch"))
        ELSE send(E, Msg("destroy", fld.sessionId, f, JsUndefined))

\* The callback a field operation hands to waitForEvent.
waiterCallback(E, f) ==
    LET fld == E.fields[f]
    IN  IF fld.kind \in {"autocomplete", "address"}
        THEN removeAllListeners(E, eventId(fld.sessionId, f, "patch"))
        ELSE IF fld.standalone
             THEN send(E, Msg("destroy", fld.sessionId, f, JsUndefined))
             ELSE E

\* What the operation returns to its caller for the value it was woken with.
opResult(fld, data) ==
    IF fld.kind = "address" /\ fld.pick THEN pick(data) ELSE data

\* --------------------------------------------------------------- workflow
\* callFields that calls only the builder's first operation.
callFields_FirstOnly(E, sessionId, sps, groupId) ==
    IF sps = <<>> THEN E
    ELSE callField(E, sessionId, Head(sps), FALSE, groupId)

\* The builder's calls, in order, on the non-standalone view.
RECURSIVE callFields(_, _, _, _)
callFields(E, sessionId, sps, groupId) ==
    IF sps = <<>> THEN E
    ELSE LET sp == Head(sps)
             E1 == IF sp.kind \in DisplayKinds
                   THEN showElement(E, sessionId, sp.kind, FALSE, groupId)
                   ELSE callField(E, sessionId, sp, FALSE, groupId)
         IN  callFields(E1, sessionId, Tail(sps), groupId)

\* group that runs its completion before it waits: the builder's promises
\* are awaited and the key is emitted first, then the waiter is registered.
callGroup_EmitsBeforeWaiting(E, w, sps) ==
    LET sessionId == E.wf[w].sessionId
        g == Len(E.groups) + 1
        first == Len(E.fields) + 1
        E1 == callFields(E, sessionId, sps, g)
        grp == [sessionId |-> sessionId,
                fields |-> [i \in 1..Len(sps) |-> first + i - 1],
                phase |-> "awaiting", returned |-> FALSE,
                results |-> <<>>]
        E2 == [E1 EXCEPT !.groups = Append(@, grp)]
        E3 == IF \A i \in DOMAIN grp.fields :
                    E2.fields[grp.fields[i]].status
                        \in {"resolved", "display"}
              THEN [E2 EXCEPT !.groups[g].phase = "emitted"]
              ELSE E2
        E4 == once(E3, groupEventId(sessionId, g))
    IN  [E4 EXCEPT !.wf[w].on = g]

\* sessionHandler(sessionId).group(builder), up to its await: the builder,
\* setImmediate, and the waiter on the group's key.
callGroup(E, w, sps) ==
    LET sessionId == E.wf[w].sessionId
        g == Len(E.groups) + 1
        first == Len(E.fields) + 1
        E1 == callFields(E, sessionId, sps, g)
        grp == [sessionId |-> sessionId,
                fields |-> [i \in 1..Len(sps) |-> first + i - 1],
                phase |-> "scheduled", returned |-> FALSE,
                results |-> <<>>]
        E2 == [E1 EXCEPT !.groups = Append(@, grp)]
        E3 == once(E2, groupEventId(sessionId, g))
    IN  [E3 EXCEPT !.wf[w].on = g]

\* callStandalone on a view bound to one fixed session.
callStandalone_FixedSession(E, w, sp) ==
    LET f == Len(E.fields) + 1
        E1 == callField(E, "s1", sp, TRUE, 0)
    IN  [E1 EXCEPT !.wf[w].on = f]

\* `await io.input[kind](...)` on the standalone view.
callStandalone(E, w, sp) ==
    LET f == Len(E.fields) + 1
        E1 == callField(E, E.wf[w].sessionId, sp, TRUE, 0)
    IN  [E1 EXCEPT !.wf[w].on = f]

\* display that registers a validator and a waiter as an input field does.
callDisplay_Registers(E, w, kind) ==
    LET f == Len(E.fields) + 1
        E1 == callField(E, E.wf[w].sessionId, DisplaySpec("text"), TRUE, 0)
    IN  [E1 EXCEPT !.fields[f].kind = kind, !.wf[w].handle = f]

\* `await io.display[kind](...)`: the element is rendered and its handle is
\* returned; the operation awaits nothing.
callDisplay(E, w, kind) ==
    LET f == Len(E.fields) + 1
        E1 == showElement(E, E.wf[w].sessionId, kind, TRUE, 0)
    IN  [E1 EXCEPT !.wf[w].handle = f]

\* The max option the callbacks pass to io.display.progress.
ProgressMax == 1

\* increment that stops counting at the max option.
callHandle_CappedAtMax(E, f, method) ==
    LET fld == E.fields[f]
        next == IF fld.counter < ProgressMax THEN fld.counter + 1
                ELSE fld.counter
    IN  CASE method = "increment" ->
               send([E EXCEPT !.fields[f].counter = next],
                    Msg("patch", fld.sessionId, f, JsNum(ToString(next))))
          [] method = "updateMessage" ->
               send(E, Msg("patch", fld.sessionId, f, LoadingMessage))
          [] method = "destroy" ->
               send(E, Msg("destroy", fld.sessionId, f, JsUndefined))

\* A method of the handle of display element f is called.
callHandle(E, f, method) ==
    LET fld == E.fields[f]
    IN  CASE method = "increment" ->
               send([E EXCEPT !.fields[f].counter = @ + 1],
                    Msg("patch", fld.sessionId, f,
                        JsNum(ToString(fld.counter + 1))))
          [] method = "updateMessage" ->
               send(E, Msg("patch", fld.sessionId, f, LoadingMessage))
          [] method = "destroy" ->
               send(E, Msg("destroy", fld.sessionId, f, JsUndefined))

\* statefulSession's listener after `await callback(io, ctx)`.
afterCallback(E, w) ==
    send(E, Msg("complete", E.wf[w].sessionId, 0, JsUndefined))

\* Workflow invocation w runs its next step, or returns, or throws.
\* `await callback(io, ctx)` has no catch: when the callback's promise
\* rejects, the listener's own promise rejects and nothing after the await
\* runs.
step(E, w) ==
    LET pc == E.wf[w].pc + 1
        E1 == [E EXCEPT !.wf[w].pc = pc, !.wf[w].on = 0]
    IN  IF pc > Len(program) THEN afterCallback(E1, w)
        ELSE CASE program[pc].type = "throw" -> E1
               [] program[pc].type = "field" ->
                    callStandalone(E1, w, program[pc].sps[1])
               [] program[pc].type = "group" ->
                    callGroup(E1, w, program[pc].sps)
               [] program[pc].type = "display" ->
                    callDisplay(E1, w, program[pc].sps[1].kind)
               [] program[pc].type = "handle" ->
                    callHandle(E1, E1.wf[w].handle, program[pc].method)

\* The step invocation w has run awaits nothing that is still pending: a
\* display operation has returned its handle, a method of a handle is an
\* ordinary call.
Settled(E, w) ==
    /\ E.wf[w].pc \in DOMAIN program
    /\ program[E.wf[w].pc].type \in {"display", "handle"}

\* Workflow invocation w goes on to its next pending await, or returns, or
\* throws.
RECURSIVE advance(_, _)
advance(E, w) ==
    LET E1 == step(E, w)
    IN  IF Settled(E1, w) THEN advance(E1, w) ELSE E1

Awaits(E, w, type, id) ==
    /\ E.wf[w].pc \in DOMAIN program
    /\ program[E.wf[w].pc].type = type
    /\ E.wf[w].on = id

\* The operation a workflow awaits has returned.  Each id is awaited by one
\* invocation.
resume(E, type, id) ==
    LET ws == {w \in DOMAIN E.wf : Awaits(E, w, type, id)}
    IN  IF ws = {} THEN E ELSE advance(E, CHOOSE w \in ws : TRUE)

\* ------------------------------------------------------------------ group
\* The promise of every element of the group is fulfilled: an input field
\* has resolved, a display element has returned its handle.
AllResolved(E, fs) ==
    \A i \in DOMAIN fs :
        IsResolved(E, fs[i]) \/ E.fields[fs[i]].status = "display"

\* Promise.all with the results in the order the promises settled.
PromiseAll_ResolutionOrder(E, fs) ==
    LET mine == SelectSeq(E.resolved,
                          LAMBDA f : \E i \in DOMAIN fs : fs[i] = f)
    IN  [i \in DOMAIN mine |-> E.fields[mine[i]].result]

\* Promise.all(elementPromises): the results in the order of the promises.
PromiseAll(E, fs) == [i \in DOMAIN fs |-> E.fields[fs[i]].result]

\* eventEmitter.emit of the group's key: the waiter of the group call sends
\* groupComplete and the group call returns the results.
emitGroup(E, g, results) ==
    LET grp == E.groups[g]
        key == groupEventId(grp.sessionId, g)
        E1 == [E EXCEPT !.groups[g].phase = "emitted"]
    IN  IF listenersOf(E, key) = {} THEN E1
        ELSE LET E2 == removeAllListeners(E1, key)
                 E3 == send(E2, Msg("groupComplete", grp.sessionId, 0,
                                    JsUndefined))
                 E4 == [E3 EXCEPT !.groups[g].returned = TRUE,
                                  !.groups[g].results = results]
             IN  resume(E4, "group", g)

\* groupSettle that goes on as soon as one promise has settled.
groupSettle_AnyResolved(E, g) ==
    LET grp == E.groups[g]
    IN  IF grp.phase = "awaiting"
           /\ \/ grp.fields = <<>>
              \/ \E i \in DOMAIN grp.fields : IsResolved(E, grp.fields[i])
        THEN emitGroup(E, g, PromiseAll(E, grp.fields))
        ELSE E

\* The setImmediate callback after its await of Promise.all.
groupSettle(E, g) ==
    LET grp == E.groups[g]
    IN  IF grp.phase = "awaiting" /\ AllResolved(E, grp.fields)
        THEN emitGroup(E, g, PromiseAll(E, grp.fields))
        ELSE E

\* ------------------------------------------------------------------- emit
\* A resolve key is emitted: waitForEvent's once-listener runs the
\* operation's callback and resolves its promise with the data.
emitResolve(E, key, data) ==
    IF listenersOf(E, key) = {} THEN E
    ELSE LET f == key.id
             E1 == removeAllListeners(E, key)
             E2 == waiterCallback(E1, f)
             E3 == [E2 EXCEPT
                       !.fields[f].status = "resolved",
                       !.fields[f].result = opResult(E2.fields[f], data),
                       !.resolved = Append(@, f)]
         IN  IF E3.fields[f].group = 0
             THEN resume(E3, "field", f)
             ELSE groupSettle(E3, E3.fields[f].group)

\* emitPatch whose listener calls the fetch function twice.
emitPatch_FetchTwice(E, key, data) ==
    IF listenersOf(E, key) = {} THEN E
    ELSE LET fetch == [sessionId |-> key.sessionId, fieldId |-> key.id,
                       data |-> data]
         IN  [E EXCEPT !.fetching = Append(Append(@, fetch), fetch)]

\* A patch key is emitted: the field's persistent listener calls the fetch
\* function with the data and awaits it.
emitPatch(E, key, data) ==
    IF listenersOf(E, key) = {} THEN E
    ELSE [E EXCEPT !.fetching =
             Append(@, [sessionId |-> key.sessionId, fieldId |-> key.id,
                        data |-> data])]

emit(E, key, data) ==
    CASE key.type = "resolve" -> emitResolve(E, key, data)
      [] key.type = "patch" -> emitPatch(E, key, data)
      [] OTHER -> E

\* -------------------------------------------------- inbound message handler
\* afterValidation that wakes the waiter whatever the validator answered.
afterValidation_EmitOnReject(E, message, validationResult) ==
    LET E1 == send(E, Msg("warn", message.sessionId, message.fieldId,
                          validationResult))
    IN  emit([E1 EXCEPT !.fieldValidators = MapDelete(@, message.fieldId)],
             eventId(message.sessionId, message.fieldId, "resolve"),
             message.fieldValue)

\* afterValidation with an attempt limit: after a rejection for the field,
\* an accepted submission no longer wakes the waiter.
afterValidation_AttemptLimit(E, message, validationResult) ==
    LET E1 == send(E, Msg("warn", message.sessionId, message.fieldId,
                          validationResult))
        rejected == \E i \in DOMAIN E.out :
                        /\ E.out[i].action = "warn"
                        /\ E.out[i].fieldId = message.fieldId
                        /\ E.out[i].data # JsTrue
    IN  IF validationResult = JsTrue /\ ~rejected
        THEN emit([E1 EXCEPT !.fieldValidators =
                       MapDelete(@, message.fieldId)],
                  eventId(message.sessionId, message.fieldId, "resolve"),
                  message.fieldValue)
        ELSE E1

\* afterValidation that leaves the validator in the map on success.
afterValidation_KeepsValidator(E, message, validationResult) ==
    LET E1 == send(E, Msg("warn", message.sessionId, message.fieldId,
                          validationResult))
    IN  IF validationResult = JsTrue
        THEN emit(E1, eventId(message.sessionId, message.fieldId, "resolve"),
                  message.fieldValue)
        ELSE E1

\* The resolve branch after `await customValidator(message.fieldValue)`.
afterValidation(E, message, validationResult) ==
    LET E1 == send(E, Msg("warn", message.sessionId, message.fieldId,
                          validationResult))
    IN  IF validationResult = JsTrue
        THEN emit([E1 EXCEPT !.fieldValidators =
                       MapDelete(@, message.fieldId)],
                  eventId(message.sessionId, message.fieldId, "resolve"),
                  message.fieldValue)
        ELSE E1

\* message.action === 'resolve'.  A default validator is an async function
\* without an await of its own, so the handler goes on in the same turn of
\* the event loop; a caller-supplied validator is awaited.
onResolve(E, message) ==
    IF message.fieldId \notin DOMAIN E.fieldValidators
    THEN emit(E, eventId(message.sessionId, message.fieldId, "resolve"),
              message.fieldValue)
    ELSE LET customValidator == E.fieldValidators[message.fieldId]
         IN  IF customValidator.custom
             THEN [E EXCEPT !.validating = Append(@, message)]
             ELSE afterValidation(E, message,
                      defaultValidator(customValidator.kind,
                                       message.fieldValue))

\* message.action === 'patch'
onPatch(E, message) ==
    emit(E, eventId(message.sessionId, message.fieldId, "patch"),
         message.data)

\* afterQuery that treats a missing API key as fatal for the field: it
\* sends the warn and drops the field's validator.
afterQuery_KeyRequired(E, fetch) ==
    LET fld == E.fields[fetch.fieldId]
        E1 == IF fld.kind = "address" /\ ~fld.apiKey
              THEN [send(E, Msg("warn", fetch.sessionId, fetch.fieldId,
                                MissingApiKey))
                       EXCEPT !.fieldValidators = MapDelete(@, fetch.fieldId)]
              ELSE E
    IN  send(E1, Msg("patch", fetch.sessionId, fetch.fieldId,
                     Query(fetch.data)))

\* The patch listener after `await query(data)`.  The fetch function of an
\* address field sends a warn, after its request has returned, when
\* googleMapsApiKey is empty.
afterQuery(E, fetch) ==
    LET fld == E.fields[fetch.fieldId]
        E1 == IF fld.kind = "address" /\ ~fld.apiKey
              THEN send(E, Msg("warn", fetch.sessionId, fetch.fieldId,
                               MissingApiKey))
              ELSE E
    IN  send(E1, Msg("patch", fetch.sessionId, fetch.fieldId,
                     Query(fetch.data)))

\* message.action === 'startSession': the emit runs statefulSession's
\* listener to its first await (updatePeers, then the callback to its first
\* await), then the handler sends its own updatePeers.  A callback that
\* awaits nothing has returned by then, and the listener goes on after the
\* handler.
onStartSession(E, sessionId) ==
    LET w == Len(E.wf) + 1
        E1 == send(E, Msg("updatePeers", "", 0, JsUndefined))
        E2 == [E1 EXCEPT !.wf =
                  Append(@, [sessionId |-> sessionId, pc |-> 0, on |-> 0,
                             handle |-> 0])]
        E3 == IF program = <<>> THEN E2 ELSE step(E2, w)
        E4 == send(E3, Msg("updatePeers", "", 0, JsUndefined))
    IN  IF program = <<>> \/ Settled(E4, w) THEN advance(E4, w) ELSE E4

\* ------------------------------------------------------------------ codec
\* The text of an inbound frame: whether it is JSON, and the value it
\* denotes if it is.
Garbage == [parses |-> FALSE, value |-> JsUndefined]
Json(v) == [parses |-> TRUE, value |-> v]

\* safeDestr throws on text that is not JSON; the catch answers false.
safeParse(maybeJson) ==
    IF maybeJson.parses THEN maybeJson.value ELSE JsFalse

\* message.action; reading a property of a value that lacks it, or of a
\* primitive, gives undefined.
ActionOf(message) ==
    IF message.t = "object" /\ "action" \in DOMAIN message.o
    THEN message.o.action
    ELSE "undefined"

\* onMessage that acknowledges every frame that parses to a truthy value.
onMessage_AckUnknown(E, rawMessage) ==
    LET message == safeParse(rawMessage)
    IN  IF Falsy(message) THEN E
        ELSE send(E, Msg("updatePeers", "", 0, JsUndefined))

\* The WebsocketEvent.message listener, from the frame's text.
onMessage(E, rawMessage) ==
    LET message == safeParse(rawMessage)
    IN  IF Falsy(message) THEN E
        ELSE LET action == ActionOf(message)
                 E1 == IF action = "startSession"
                       THEN onStartSession(E, message.o.sessionId)
                       ELSE E
                 E2 == IF action = "patch" THEN onPatch(E1, message.o)
                       ELSE E1
             IN  IF action = "resolve" THEN onResolve(E2, message.o)
                 ELSE E2

\* Frames that are not startSession, patch or resolve messages.
DroppedPayloads ==
    {Garbage,
     Json(JsNull), Json(JsFalse), Json(JsNum("0")), Json(JsStr("")),
     Json(JsNum("5")), Json(JsStr("text")), Json(JsArr("r1")),
     Json(JsObj([sessionId |-> "s1"])),
     Json(JsObj([action |-> "render", sessionId |-> "s1", fieldId |-> 1,
                 fieldValue |-> JsStr("Hello")]))}

\* ---------------------------------------------------------------- actions
\* What the peer has done so far beyond starting one session and submitting
\* one accepted value per field under the field's own session: further
\* sessions, patch events, submissions to a caller-supplied validator,
\* rejected submissions, submissions under another session's id.  A patch
\* sent by a method of a display handle answers no event of the peer.
IsEvent(E, m) ==
    \/ m.action = "patch" /\ E.fields[m.fieldId].kind \notin DisplayKinds
    \/ /\ m.action = "warn"
       /\ m.data # MissingApiKey
       /\ \/ m.data # JsTrue
          \/ E.fields[m.fieldId].custom
          \/ E.fields[m.fieldId].sessionId # m.sessionId

Events(E) ==
    (IF Len(E.wf) > 1 THEN Len(E.wf) - 1 ELSE 0)
    + Len(E.fetching) + Len(E.validating)
    + Cardinality({i \in DOMAIN E.out : IsEvent(E, E.out[i])})

\* internalStack(apiKey, options) has returned and statefulSession has
\* registered the callback.
Constructed ==
    /\ out = <<Msg("updatePeers", "", 0, JsUndefined)>>
    /\ fields = <<>>
    /\ fieldValidators = <<>>
    /\ listeners = EmptyBag
    /\ validating = <<>>
    /\ fetching = <<>>
    /\ wf = <<>>
    /\ groups = <<>>
    /\ resolved = <<>>
    /\ sessionStepStates = <<>>
    /\ wsState = "open"

\* The engine constructed with the default options.
Init ==
    /\ program \in Programs
    /\ verbose = TRUE
    /\ Constructed
    /\ input = JsUndefined
    /\ verdicts = <<>>

StartSession(s) ==
    LET E == onStartSession(Cur, s)
    IN  /\ Len(fields) + FieldsOf(program) <= MaxFields
        /\ Events(E) <= MaxEvents
        /\ Commit(E)

\* The table operation after `await query({page: 1, ...})`.
QueryDone(f) ==
    /\ fields[f].status = "querying"
    /\ Commit(register(Cur, f))

\* The callback group() gave to setImmediate runs.
GroupImmediate(g) ==
    /\ groups[g].phase = "scheduled"
    /\ Commit(groupSettle([Cur EXCEPT !.groups[g].phase = "awaiting"], g))

Resolve(s, f, v) ==
    LET E == onResolve(Cur, [sessionId |-> s, fieldId |-> f,
                             fieldValue |-> v])
    IN  /\ Events(E) <= MaxEvents
        /\ Commit(E)

ValidateDone(i, r) ==
    Commit(afterValidation([Cur EXCEPT !.validating = RemoveAt(@, i)],
                           validating[i], r))

Patch(s, f, d) ==
    LET E == onPatch(Cur, [sessionId |-> s, fieldId |-> f, data |-> d])
    IN  /\ Events(E) <= MaxEvents
        /\ Commit(E)

FetchDone(i) ==
    Commit(afterQuery([Cur EXCEPT !.fetching = RemoveAt(@, i)], fetching[i]))

\* A frame arrives that is no startSession, patch or resolve message.
Receive(raw) == Commit(onMessage(Cur, raw))

Next ==
    \/ \E s \in Sessions : StartSession(s)
    \/ \E f \in DOMAIN fields : QueryDone(f)
    \/ \E g \in DOMAIN groups : GroupImmediate(g)
    \/ \E s \in Sessions, f \in 0..Len(fields), v \in InputValues :
          Resolve(s, f, v)
    \/ \E i \in DOMAIN validating, r \in CustomResults : ValidateDone(i, r)
    \/ \E s \in Sessions, f \in 0..Len(fields), d \in PatchData :
          Patch(s, f, d)
    \/ \E i \in DOMAIN fetching : FetchDone(i)
    \/ \E raw \in DroppedPayloads : Receive(raw)

Spec == Init /\ [][Next]_vars

\* ------------------------------------------------------------- transport
\* WebsocketEvent.error.  The listener that logs and throws 'Fatal error' is
\* registered only when options?.verbose !== false; without it the event has
\* no listener and the engine goes on.
TransportError ==
    /\ wsState # "fatal"
    /\ wsState' = IF verbose THEN "fatal" ELSE "error"
    /\ UNCHANGED <<program, out, fields, fieldValidators, listeners,
                   validating, fetching, wf, groups, resolved, verbose,
                   input, verdicts,
                   sessionStepStates>>

\* The engine constructed with any options, running a workflow of at most
\* one text field.
InitTransport ==
    /\ program \in {p \in Programs :
                      /\ FieldsOf(p) <= 1
                      /\ \A i \in DOMAIN p : \A j \in DOMAIN p[i].sps :
                            p[i].sps[j].kind = "text"}
    /\ verbose \in BOOLEAN
    /\ Constructed
    /\ input = JsUndefined
    /\ verdicts = <<>>

NextTransport ==
    \/ TransportError
    \/ wsState # "fatal" /\ Next

SpecTransport == InitTransport /\ [][NextTransport]_vars

\* ----------------------------------------------------- default validators
\* The values a resolve message can carry in fieldValue, and undefined for
\* a message without one.
ValidatorInputs ==
    {JsStr(""), JsStr("a"), JsStr("@"), JsStr("ab"), JsStr("a@b"),
     JsStr("Hello"),
     JsNum("0"), JsNum("1"), JsNum("-1"), JsNum("1.5"), JsNum("NaN"),
     JsTrue, JsFalse, JsNull, JsUndefined,
     JsArr(""), JsArr("r1"), JsObj([label |-> "a"])}

ValidatorKinds == {"text", "number", "email", "autocomplete", "address",
                   "table"}

\* The default validator of a kind is called with the input.
Validate(kind) ==
    /\ kind \notin DOMAIN verdicts
    /\ verdicts' = verdicts @@ (kind :> defaultValidator(kind, input))
    /\ UNCHANGED <<program, out, fields, fieldValidators, listeners,
                   validating, fetching, wf, groups, resolved, verbose,
                   wsState, input,
                   sessionStepStates>>

InitValidators ==
    /\ program = <<>>
    /\ verbose = TRUE
    /\ Constructed
    /\ input \in ValidatorInputs
    /\ verdicts = <<>>

NextValidators == \E kind \in ValidatorKinds : Validate(kind)

SpecValidators == InitValidators /\ [][NextValidators]_vars

\* ------------------------------------------------- display elements
TextSpec ==
    [kind |-> "text", filterable |-> FALSE, custom |-> FALSE,
     pick |-> FALSE, apiKey |-> TRUE]

RECURSIVE Calls(_, _)
Calls(method, n) ==
    IF n = 0 THEN <<>> ELSE <<HandleOp(method)>> \o Calls(method, n - 1)

\* Callbacks that show one display element and call a method of its handle
\* n times, with or without a destroy after them, again after the destroy,
\* and with or without a text field awaited before or in between.
ProgramsShowing(kind, method, n) ==
    {<<DisplayOp(kind)>> \o Calls(method, n),
     <<DisplayOp(kind)>> \o Calls(method, n) \o <<HandleOp("destroy")>>,
     <<DisplayOp(kind)>> \o Calls(method, n) \o <<FieldOp(TextSpec)>>
         \o Calls(method, n) \o <<HandleOp("destroy")>>,
     <<FieldOp(TextSpec), DisplayOp(kind)>> \o Calls(method, n)
         \o <<HandleOp("destroy")>>,
     <<DisplayOp(kind)>> \o Calls(method, n) \o <<HandleOp("destroy")>>
         \o Calls(method, n)}

DisplayPrograms ==
    UNION {ProgramsShowing(kind, method, n) :
              kind \in DisplayKinds,
              method \in {"increment", "updateMessage", "destroy"},
              n \in 0..MaxFields}

\* The engine constructed with the default options, running a callback that
\* calls each handle's own methods only.
InitDisplay ==
    /\ program \in {p \in DisplayPrograms :
                      \A i, j \in DOMAIN p :
                          (p[i].type = "display" /\ p[j].type = "handle") =>
                              p[j].method \in Methods(p[i].sps[1].kind)}
    /\ verbose = TRUE
    /\ Constructed
    /\ input = JsUndefined
    /\ verdicts = <<>>

\* The handlers that have something to act on when the callback awaits
\* text fields only.
NextDisplay ==
    \/ \E s \in Sessions : StartSession(s)
    \/ \E s \in Sessions, f \in 0..Len(fields), v \in InputValues :
          Resolve(s, f, v)
    \/ \E s \in Sessions, f \in 0..Len(fields), d \in PatchData :
          Patch(s, f, d)
    \/ \E raw \in DroppedPayloads : Receive(raw)

SpecDisplay == InitDisplay /\ [][NextDisplay]_vars

\* ------------------------------------------------------- earlier variant
\* The variant of the engine that records the step of each session.  Its
\* callbacks await text fields with the default validator and promises of
\* their own (a timer, a request).
PauseOp == [type |-> "pause", sps |-> <<>>]

EarlierPrograms ==
    {[i \in 1..n |-> FieldOp(TextSpec)] : n \in 0..MaxFields}
    \cup {<<FieldOp(TextSpec), PauseOp>>,
          <<FieldOp(TextSpec), PauseOp, FieldOp(TextSpec)>>,
          <<PauseOp, FieldOp(TextSpec)>>,
          <<FieldOp(TextSpec), ThrowOp>>}

\* fieldHandler(sessionId).input.text up to its await: render, validator,
\* recorded step, waiter.
textEarlier(E, w) ==
    LET f == Len(E.fields) + 1
        E1 == callStandalone(E, w, TextSpec)
    IN  [E1 EXCEPT !.sessionStepStates = MapSet(@, E.wf[w].sessionId, f)]

\* statefulSession's listener after `await callback(io, ctx)`.
afterCallbackEarlier(E, w) ==
    LET sessionId == E.wf[w].sessionId
        E1 == [E EXCEPT !.sessionStepStates = MapDelete(@, sessionId)]
    IN  send(E1, Msg("complete", sessionId, 0, JsUndefined))

\* Workflow invocation w goes on to its next await, or returns, or throws.
advanceEarlier(E, w) ==
    LET pc == E.wf[w].pc + 1
        E1 == [E EXCEPT !.wf[w].pc = pc, !.wf[w].on = 0]
    IN  IF pc > Len(program) THEN afterCallbackEarlier(E1, w)
        ELSE CASE program[pc].type = "field" -> textEarlier(E1, w)
               [] program[pc].type \in {"pause", "throw"} -> E1

\* The waiter of a field is woken: it sends destroy, and the workflow goes on.
emitEarlier(E, key, data) ==
    IF listenersOf(E, key) = {} THEN E
    ELSE LET f == key.id
             fld == E.fields[f]
             E1 == removeAllListeners(E, key)
             E2 == send(E1, Msg("destroy", fld.sessionId, f, JsUndefined))
             E3 == [E2 EXCEPT !.fields[f].status = "resolved",
                              !.fields[f].result = data,
                              !.resolved = Append(@, f)]
             ws == {w \in DOMAIN E3.wf : Awaits(E3, w, "field", f)}
         IN  IF ws = {} THEN E3
             ELSE advanceEarlier(E3, CHOOSE w \in ws : TRUE)

\* message.action === 'resolve' in the earlier variant: the warn is sent
\* only when the validator did not answer true.
onResolveEarlier(E, message) ==
    LET key == eventId(message.sessionId, message.fieldId, "resolve")
    IN  IF message.fieldId \notin DOMAIN E.fieldValidators
        THEN emitEarlier(E, key, message.fieldValue)
        ELSE LET validationResult ==
                     defaultValidator(E.fieldValidators[message.fieldId].kind,
                                      message.fieldValue)
             IN  IF validationResult = JsTrue
                 THEN emitEarlier(
                          [E EXCEPT !.fieldValidators =
                              MapDelete(@, message.fieldId)],
                          key, message.fieldValue)
                 ELSE send(E, Msg("warn", message.sessionId,
                                  message.fieldId, validationResult))

\* onStartSessionEarlier that runs the callback whatever step is recorded.
onStartSessionEarlier_IgnoresStep(E, sessionId) ==
    LET w == Len(E.wf) + 1
        E1 == send(E, Msg("updatePeers", "", 0, JsUndefined))
        E2 == [E1 EXCEPT !.wf =
                  Append(@, [sessionId |-> sessionId, pc |-> 0, on |-> 0,
                             handle |-> 0])]
        E3 == IF program = <<>> THEN E2 ELSE advanceEarlier(E2, w)
        E4 == send(E3, Msg("updatePeers", "", 0, JsUndefined))
    IN  IF program = <<>> THEN advanceEarlier(E4, w) ELSE E4

\* message.action === 'startSession' in the earlier variant: with a step
\* recorded for the session the listener renders the recorded field again
\* under its recorded fieldId and returns; otherwise it runs the callback.
\* Then the handler sends its own updatePeers.
onStartSessionEarlier(E, sessionId) ==
    IF sessionId \in DOMAIN E.sessionStepStates
    THEN LET fieldId == E.sessionStepStates[sessionId]
             E1 == renderFieldInForm(E, sessionId, fieldId,
                                     RenderType(E.fields[fieldId].kind))
         IN  send(E1, Msg("updatePeers", "", 0, JsUndefined))
    ELSE LET w == Len(E.wf) + 1
             E1 == send(E, Msg("updatePeers", "", 0, JsUndefined))
             E2 == [E1 EXCEPT !.wf =
                       Append(@, [sessionId |-> sessionId, pc |-> 0,
                                  on |-> 0, handle |-> 0])]
             E3 == IF program = <<>> THEN E2 ELSE advanceEarlier(E2, w)
             E4 == send(E3, Msg("updatePeers", "", 0, JsUndefined))
         IN  IF program = <<>> THEN advanceEarlier(E4, w) ELSE E4

\* The render messages sent beyond one per field: the resumes so far.
Resumes(E) ==
    Cardinality({i \in DOMAIN E.out : E.out[i].action = "render"})
        - Len(E.fields)

StartSessionEarlier(s) ==
    LET E == onStartSessionEarlier(Cur, s)
    IN  /\ \/ s \in DOMAIN sessionStepStates
           \/ Len(fields) + FieldsOf(program) <= MaxFields
        /\ Events(E) + Resumes(E) <= MaxEvents
        /\ Commit(E)

ResolveEarlier(s, f, v) ==
    LET E == onResolveEarlier(Cur, [sessionId |-> s, fieldId |-> f,
                                    fieldValue |-> v])
    IN  /\ Events(E) + Resumes(E) <= MaxEvents
        /\ Commit(E)

\* The promise of its own that invocation w awaits is fulfilled.
PauseDone(w) ==
    /\ wf[w].pc \in DOMAIN program
    /\ program[wf[w].pc].type = "pause"
    /\ Commit(advanceEarlier(Cur, w))

InitEarlier ==
    /\ program \in EarlierPrograms
    /\ verbose = TRUE
    /\ Constructed
    /\ input = JsUndefined
    /\ verdicts = <<>>

NextEarlier ==
    \/ \E s \in Sessions : StartSessionEarlier(s)
    \/ \E s \in Sessions, f \in 0..Len(fields), v \in InputValues :
          ResolveEarlier(s, f, v)
    \/ \E w \in DOMAIN wf : PauseDone(w)

SpecEarlier == InitEarlier /\ [][NextEarlier]_vars

\* -------------------------------------------------------- correlation keys
\* Ids as the peer may send them: texts of one or two characters, of which
\* one is the separator.
MaxIdLen == 2
IdTexts == UNION {[1..n -> {"a", ":"}] : n \in 1..MaxIdLen}

\* `${sessionId}:${fieldId}:${type}` as a text, character by character; the
\* type tag is one of two fixed words and is kept whole.
eventIdString(sessionId, fieldId, type) ==
    sessionId \o <<":">> \o fieldId \o <<":">> \o <<type>>

KeyTriples ==
    [sessionId : IdTexts, fieldId : IdTexts, type : {"patch", "resolve"}]

\* The key of the i-th of two triples is built.
MakeKey(i) ==
    /\ i \notin DOMAIN verdicts
    /\ verdicts' = verdicts @@
           (i :> eventIdString(input[i].sessionId, input[i].fieldId,
                               input[i].type))
    /\ UNCHANGED <<program, out, fields, fieldValidators, listeners,
                   validating, fetching, wf, groups, resolved, verbose,
                   wsState, input,
                   sessionStepStates>>

InitKeys ==
    /\ program = <<>>
    /\ verbose = TRUE
    /\ Constructed
    /\ input \in {p \in KeyTriples \X KeyTriples : p[1] # p[2]}
    /\ verdicts = <<>>

NextKeys == \E i \in 1..2 : MakeKey(i)

SpecKeys == InitKeys /\ [][NextKeys]_vars

\* ------------------------------------------------------------ group calls
\* Callbacks that make one group call whose builder calls text fields and
\* heading elements, or nothing.
GroupPrograms ==
    {<<GroupOp(sps)>> :
        sps \in UNION {[1..n -> {TextSpec, DisplaySpec("heading")}] :
                           n \in 0..MaxFields}}

InitGroups ==
    /\ program \in GroupPrograms
    /\ verbose = TRUE
    /\ Constructed
    /\ input = JsUndefined
    /\ verdicts = <<>>

\* The handlers that have something to act on when the callback makes group
\* calls of text fields and display elements, with at most MaxGroupCalls
\* invocations and every submission sent under the field's own session.
NextGroups ==
    \/ \E s \in Sessions : Len(wf) < MaxGroupCalls /\ StartSession(s)
    \/ \E g \in DOMAIN groups : GroupImmediate(g)
    \/ \E f \in DOMAIN fields, v \in InputValues :
          Resolve(fields[f].sessionId, f, v)

\* The event loop runs the callbacks handed to setImmediate.
RunImmediate == \E g \in DOMAIN groups : GroupImmediate(g)

SpecGroups == InitGroups /\ [][NextGroups]_vars /\ WF_vars(RunImmediate)

\* ================================================================= claims
Rendered(f) ==
    \E i \in DOMAIN out :
        out[i] = Msg("render", fields[f].sessionId, f,
                     JsStr(RenderType(fields[f].kind)))

DestroyCount(f) ==
    Cardinality({i \in DOMAIN out :
        out[i] = Msg("destroy", fields[f].sessionId, f, JsUndefined)})

\* The rejections of submissions for field f under its own session.
RejectCount(f) ==
    Cardinality({i \in DOMAIN out :
        /\ out[i].action = "warn"
        /\ out[i].fieldId = f
        /\ out[i].sessionId = fields[f].sessionId
        /\ out[i].data \notin {JsTrue, MissingApiKey}})

ResolveMessage(s, f, v) == [sessionId |-> s, fieldId |-> f, fieldValue |-> v]

\* The state in which the handler goes on after the i-th awaited validator.
AfterAwait(i) == [Cur EXCEPT !.validating = RemoveAt(@, i)]

ResolvedWith(E, f, v) ==
    /\ E.fields[f].status = "resolved"
    /\ E.fields[f].result = opResult(E.fields[f], v)

\* C1: every standalone input field that has resolved resolved with a value
\* the peer submitted, and exactly one destroy message with its fieldId and
\* sessionId has been sent.
C1_StandaloneResolveDestroysOnce ==
    \A f \in DOMAIN fields :
        (fields[f].standalone /\ IsResolved(Cur, f)) =>
            /\ \E v \in InputValues : ResolvedWith(Cur, f, v)
            /\ DestroyCount(f) = 1

\* C2: in every reachable state, handling a resolve whose value the
\* registered validator rejects appends exactly one warn message with the
\* reason, the fieldId and the sessionId and changes nothing else: the
\* operation stays pending, the validator stays registered, no destroy.
C2_RejectWarnsAndStaysPending ==
    /\ \A s \in Sessions, f \in DOMAIN fieldValidators, v \in InputValues :
          LET val == fieldValidators[f]
              r == defaultValidator(val.kind, v)
          IN  (~val.custom /\ r # JsTrue) =>
                  onResolve(Cur, ResolveMessage(s, f, v))
                      = send(Cur, Msg("warn", s, f, r))
    /\ \A i \in DOMAIN validating, r \in CustomResults \ {JsTrue} :
          afterValidation(AfterAwait(i), validating[i], r)
              = send(AfterAwait(i),
                     Msg("warn", validating[i].sessionId,
                         validating[i].fieldId, r))

C2_Witness ==
    \E i \in DOMAIN out :
        /\ out[i].action = "warn"
        /\ out[i].data # JsTrue
        /\ fields[out[i].fieldId].status = "waiting"
        /\ out[i].fieldId \in DOMAIN fieldValidators

\* C3: whatever number of submissions was rejected before, a resolve for a
\* pending field under its own session whose value the registered validator
\* accepts resolves the operation with that value.
C3_AcceptAfterRejectsResolves ==
    /\ \A f \in DOMAIN fieldValidators, v \in InputValues :
          LET val == fieldValidators[f]
          IN  (/\ fields[f].status = "waiting"
               /\ ~val.custom
               /\ defaultValidator(val.kind, v) = JsTrue) =>
                  ResolvedWith(
                      onResolve(Cur,
                          ResolveMessage(fields[f].sessionId, f, v)),
                      f, v)
    /\ \A i \in DOMAIN validating :
          LET m == validating[i]
          IN  (/\ fields[m.fieldId].status = "waiting"
               /\ fields[m.fieldId].sessionId = m.sessionId) =>
                  ResolvedWith(afterValidation(AfterAwait(i), m, JsTrue),
                               m.fieldId, m.fieldValue)

C3_Witness ==
    \E f \in DOMAIN fields :
        /\ IsResolved(Cur, f)
        /\ RejectCount(f) >= 2
        /\ \E i \in DOMAIN out :
              out[i] = Msg("warn", fields[f].sessionId, f, JsTrue)

\* C4: once an autocomplete or address field has resolved, a patch event
\* for its sessionId and fieldId calls no fetch function and sends nothing,
\* and no listener is left on its patch key.
C4_NoPatchAfterResolve ==
    \A f \in DOMAIN fields, d \in PatchData :
        (fields[f].kind \in {"autocomplete", "address"}
         /\ IsResolved(Cur, f)) =>
            /\ listenersOf(Cur, eventId(fields[f].sessionId, f, "patch")) = {}
            /\ onPatch(Cur, [sessionId |-> fields[f].sessionId,
                             fieldId |-> f, data |-> d]) = Cur

C4_Witness ==
    \E f \in DOMAIN fields :
        /\ fields[f].kind \in {"autocomplete", "address"}
        /\ IsResolved(Cur, f)
        /\ \E i \in DOMAIN out :
              out[i].action = "patch" /\ out[i].fieldId = f

\* C5: once a filterable table field has resolved, a patch event for its
\* key calls no fetch function and sends nothing, and no listener is left
\* on its patch key.
C5_TablePatchRemovedOnResolve ==
    \A f \in DOMAIN fields, d \in PatchData :
        (fields[f].kind = "table" /\ fields[f].filterable
         /\ IsResolved(Cur, f)) =>
            /\ listenersOf(Cur, eventId(fields[f].sessionId, f, "patch")) = {}
            /\ onPatch(Cur, [sessionId |-> fields[f].sessionId,
                             fieldId |-> f, data |-> d]) = Cur

\* C6: the array a group call returned lists, position by position, the
\* results of the field operations in the order the builder called them,
\* whatever the order in which they resolved.
C6_GroupResultsInBuilderOrder ==
    \A g \in DOMAIN groups :
        groups[g].returned =>
            /\ Len(groups[g].results) = Len(groups[g].fields)
            /\ \A i \in DOMAIN groups[g].fields :
                  /\ groups[g].results[i] = fields[groups[g].fields[i]].result
                  /\ \A j \in DOMAIN groups[g].fields :
                        i < j => groups[g].fields[i] < groups[g].fields[j]

\* Position of field f in the order of resolution.
ResolvedAt(f) == CHOOSE i \in DOMAIN resolved : resolved[i] = f

C6_Witness ==
    \E g \in DOMAIN groups :
        /\ groups[g].returned
        /\ Len(groups[g].fields) = 2
        /\ ResolvedAt(groups[g].fields[2]) < ResolvedAt(groups[g].fields[1])
        /\ groups[g].results[1] # groups[g].results[2]

\* C7: for each session the groupComplete messages sent are exactly one per
\* group call that returned, a group call returned only with every field
\* operation of its builder resolved, and a group whose fields have all
\* resolved after its setImmediate callback ran has returned.
C7_OneGroupCompleteAfterAll ==
    /\ \A s \in Sessions :
          Cardinality({i \in DOMAIN out :
              out[i] = Msg("groupComplete", s, 0, JsUndefined)})
          = Cardinality({g \in DOMAIN groups :
              groups[g].sessionId = s /\ groups[g].returned})
    /\ \A g \in DOMAIN groups :
          /\ groups[g].returned => AllResolved(Cur, groups[g].fields)
          /\ (groups[g].phase # "scheduled"
              /\ AllResolved(Cur, groups[g].fields)) => groups[g].returned

C7_Witness ==
    \E g \in DOMAIN groups :
        /\ groups[g].returned
        /\ Len(groups[g].fields) = 2
        /\ \E i \in DOMAIN out :
              out[i] = Msg("groupComplete", groups[g].sessionId, 0,
                           JsUndefined)

\* C8: from the group call on, every field operation the builder called
\* exists; each is rendered with its waiter registered, and its validator
\* registered until a submission passed it, whatever the state of the other
\* fields of the group; a table field not yet rendered waits only for its
\* own first query.
C8_GroupFieldsRenderConcurrently ==
    \A g \in DOMAIN groups : \A i \in DOMAIN groups[g].fields :
        LET f == groups[g].fields[i]
        IN  /\ f \in DOMAIN fields
            /\ fields[f].status = "querying" =>
                  fields[f].kind = "table" /\ ENABLED QueryDone(f)
            /\ fields[f].status # "querying" => Rendered(f)
            /\ fields[f].status = "waiting" =>
                  /\ listenersOf(Cur, eventId(fields[f].sessionId, f,
                                              "resolve")) # {}
                  /\ \/ f \in DOMAIN fieldValidators
                     \/ \E k \in DOMAIN out :
                           /\ out[k].action = "warn"
                           /\ out[k].fieldId = f
                           /\ out[k].data = JsTrue

C8_Witness ==
    \E g \in DOMAIN groups :
        /\ Len(groups[g].fields) = 2
        /\ fields[groups[g].fields[1]].status = "waiting"
        /\ fields[groups[g].fields[2]].status = "resolved"

\* C9: every destroy message names a field operation of the standalone
\* view; a field operation of the group's view sends none when it resolves.
C9_GroupFieldsSendNoDestroy ==
    \A i \in DOMAIN out :
        out[i].action = "destroy" =>
            /\ out[i].fieldId \in DOMAIN fields
            /\ fields[out[i].fieldId].standalone

C9_Witness ==
    \E f \in DOMAIN fields :
        /\ ~fields[f].standalone
        /\ IsResolved(Cur, f)
        /\ DestroyCount(f) = 0

\* What belongs to field g: its record, validator entry, listeners, awaited
\* validations and fetches, and the outbound messages naming its fieldId.
Belongings(E, g) ==
    [field |-> E.fields[g],
     validator |-> g \in DOMAIN E.fieldValidators,
     listeners |-> {l \in BagToSet(E.listeners) :
                       l.key.id = g /\ l.key.type \in {"resolve", "patch"}},
     validating |-> Cardinality({i \in DOMAIN E.validating :
                       E.validating[i].fieldId = g}),
     fetching |-> Cardinality({i \in DOMAIN E.fetching :
                       E.fetching[i].fieldId = g}),
     messages |-> Cardinality({i \in DOMAIN E.out : E.out[i].fieldId = g})]

\* C10: handling an inbound resolve or patch message with sessionId s and
\* fieldId f changes nothing that belongs to a field other than the field f
\* of session s.
C10_NoCrossSessionInterference ==
    \A s \in Sessions, f \in 0..Len(fields), g \in DOMAIN fields :
        (g # f \/ fields[g].sessionId # s) =>
            /\ \A v \in InputValues :
                  Belongings(onResolve(Cur, ResolveMessage(s, f, v)), g)
                      = Belongings(Cur, g)
            /\ \A d \in PatchData :
                  Belongings(onPatch(Cur, [sessionId |-> s, fieldId |-> f,
                                           data |-> d]), g)
                      = Belongings(Cur, g)

\* Place of a message in the life of a field: render, then warn (and patch),
\* then destroy.
Rank(action) ==
    CASE action = "render" -> 1
      [] action \in {"warn", "patch"} -> 2
      [] action = "destroy" -> 3

\* The messages of field f under its own session, as positions in out.
MessagesOf(f) ==
    {i \in DOMAIN out :
        out[i].fieldId = f /\ out[i].sessionId = fields[f].sessionId}

Invocations(s) == {w \in DOMAIN wf : wf[w].sessionId = s}

Returned(w) == wf[w].pc > Len(program)

\* C11: in a session with one workflow invocation, the messages of each
\* standalone field come in the order render, warn..., destroy, with one
\* render and at most one destroy; the complete message is sent only once
\* the workflow has returned, after a destroy for every standalone field of
\* the session.
C11_RenderWarnDestroyComplete ==
    /\ \A f \in DOMAIN fields :
          (fields[f].standalone
           /\ Cardinality(Invocations(fields[f].sessionId)) = 1) =>
              \A i \in MessagesOf(f), j \in MessagesOf(f) :
                  i < j =>
                     /\ Rank(out[i].action) <= Rank(out[j].action)
                     /\ out[j].action # "render"
                     /\ out[i].action # "destroy"
    /\ \A c \in DOMAIN out :
          (out[c].action = "complete"
           /\ Cardinality(Invocations(out[c].sessionId)) = 1) =>
              /\ \A w \in Invocations(out[c].sessionId) : Returned(w)
              /\ \A f \in DOMAIN fields :
                    (fields[f].standalone
                     /\ fields[f].sessionId = out[c].sessionId) =>
                        \E d \in MessagesOf(f) :
                            d < c /\ out[d].action = "destroy"

\* The promise the callback returned for invocation w has rejected.
Rejected(w) ==
    wf[w].pc \in DOMAIN program /\ program[wf[w].pc].type = "throw"

CompleteCount(s) ==
    Cardinality({i \in DOMAIN out :
        out[i] = Msg("complete", s, 0, JsUndefined)})

\* C12: for every session, one complete message has been sent for each
\* invocation of the workflow whose promise has settled, fulfilled or
\* rejected.
C12_CompleteOnSettle ==
    \A s \in Sessions :
        CompleteCount(s)
            = Cardinality({w \in Invocations(s) : Returned(w) \/ Rejected(w)})

\* The messages a handler sent, given the state it ended in.
NewMessages(E) == SubSeq(E.out, Len(out) + 1, Len(E.out))

SessionActions ==
    {"render", "destroy", "warn", "patch", "complete", "groupComplete"}

C14_RenderedFieldAwaitsResolve ==
    \A f \in DOMAIN fields :
        LET key == eventId(fields[f].sessionId, f, "resolve")
        IN  /\ Rendered(f) <=> fields[f].status # "querying"
            /\ (Rendered(f) /\ ~IsResolved(Cur, f)) =>
                  /\ listenerCount(Cur, key) = 1
                  /\ \/ f \in DOMAIN fieldValidators
                     \/ \E k \in DOMAIN out :
                           /\ out[k].action = "warn"
                           /\ out[k].fieldId = f
                           /\ out[k].data = JsTrue
                  /\ \A v \in InputValues :
                        ResolvedWith(emit(Cur, key, v), f, v)

C14_Witness ==
    \E f \in DOMAIN fields, g \in DOMAIN fields :
        /\ fields[f].kind = "table" /\ fields[f].status = "waiting"
        /\ fields[g].kind = "table" /\ fields[g].status = "querying"

\* C15: a frame that does not parse, parses to a falsy value or to a value
\* that is no object, or carries no action or an action other than
\* startSession, patch and resolve, leaves the engine as it was: nothing
\* sent, no waiter woken, validator map and listener table unchanged.
C15_MalformedPayloadDropped ==
    \A raw \in DroppedPayloads : onMessage(Cur, raw) = Cur

\* A field waits under id 1 in session s1 (the frame of DroppedPayloads
\* with action render names it), and the same frame with action resolve
\* is not dropped.
C15_Witness ==
    /\ 1 \in DOMAIN fields
    /\ fields[1].status = "waiting"
    /\ fields[1].sessionId = "s1"
    /\ 1 \in DOMAIN fieldValidators
    /\ onMessage(Cur, Json(JsObj([action |-> "resolve", sessionId |-> "s1",
                                   fieldId |-> 1,
                                   fieldValue |-> JsStr("Hello")]))) # Cur

\* The fields whose status differs between the current state and E.
Woken(E) == {g \in DOMAIN fields : E.fields[g].status # fields[g].status}

\* C16: every resolve key and every group key has at most one listener, a
\* once-listener; an event on the resolve key of a field wakes no field
\* operation but that one, and an event on a group key returns no group
\* call but that one.
C16_SingleConsumer ==
    /\ \A l \in DOMAIN listeners :
          l.key.type \in {"resolve", "group"} =>
              l.once /\ listenerCount(Cur, l.key) = 1
    /\ \A f \in DOMAIN fields, v \in InputValues :
          Woken(emit(Cur, eventId(fields[f].sessionId, f, "resolve"), v))
              \subseteq {f}
    /\ \A g \in DOMAIN groups :
          LET E == emitGroup(Cur, g, PromiseAll(Cur, groups[g].fields))
          IN  {h \in DOMAIN groups : E.groups[h].returned # groups[h].returned}
                  \subseteq {g}

C16_Witness ==
    \E f \in DOMAIN fields, g \in DOMAIN fields :
        /\ f # g
        /\ fields[f].sessionId # fields[g].sessionId
        /\ fields[f].status = "waiting" /\ fields[g].status = "waiting"
        /\ \E l \in DOMAIN listeners : l.key.type = "group"

\* C17: the validator map has entries only for fields, none for a field
\* that has resolved, and handling a submission that validates successfully
\* leaves no entry for its fieldId.
C17_ValidatorRemovedOnSuccess ==
    /\ DOMAIN fieldValidators \subseteq DOMAIN fields
    /\ \A f \in DOMAIN fields :
          IsResolved(Cur, f) => f \notin DOMAIN fieldValidators
    /\ \A s \in Sessions, f \in DOMAIN fieldValidators, v \in InputValues :
          LET val == fieldValidators[f]
          IN  (~val.custom /\ defaultValidator(val.kind, v) = JsTrue) =>
                  f \notin DOMAIN
                      onResolve(Cur, ResolveMessage(s, f, v)).fieldValidators
    /\ \A i \in DOMAIN validating :
          validating[i].fieldId \notin DOMAIN
              afterValidation(AfterAwait(i), validating[i], JsTrue)
                  .fieldValidators

C17_Witness ==
    \E f \in DOMAIN fields, g \in DOMAIN fields :
        /\ IsResolved(Cur, f)
        /\ RejectCount(f) >= 1
        /\ g \in DOMAIN fieldValidators

C19_DefaultValidators ==
    /\ "text" \in DOMAIN verdicts =>
          /\ input.t # "string" => verdicts["text"] = JsStr("Expected string")
          /\ input = JsStr("") => verdicts["text"] = JsStr("Required")
          /\ (input.t = "string" /\ Len(Chars(input.v)) > 0) =>
                verdicts["text"] = JsTrue
    /\ "number" \in DOMAIN verdicts =>
          /\ input.t = "number" => verdicts["number"] = JsTrue
          /\ input.t # "number" => verdicts["number"].t = "string"
    /\ "email" \in DOMAIN verdicts =>
          /\ verdicts["email"] = JsTrue <=>
                (input.t = "string"
                 /\ \E i \in DOMAIN Chars(input.v) : Chars(input.v)[i] = "@")
          /\ verdicts["email"] # JsTrue => verdicts["email"].t = "string"

C19_Witness ==
    /\ {"text", "number", "email"} \subseteq DOMAIN verdicts
    /\ input = JsStr("ab")
    /\ verdicts["text"] = JsTrue
    /\ verdicts["email"] = JsStr("Invalid email address")

\* C20: whatever the options, once a transport error event has occurred the
\* engine has raised the fatal error.
C20_TransportErrorIsTerminal ==
    wsState # "open" => wsState = "fatal"

\* The state in which the patch listener goes on after the i-th awaited
\* fetch.
AfterFetch(i) == [Cur EXCEPT !.fetching = RemoveAt(@, i)]

PatchesIn(msgs) == {i \in DOMAIN msgs : msgs[i].action = "patch"}

WarnsIn(msgs) == {i \in DOMAIN msgs : msgs[i].action = "warn"}

\* C22: for an autocomplete field, an address field or a filterable table
\* field whose resolve wait is pending, handling a patch message of its
\* session calls the fetch function exactly once, with the message's data,
\* and changes nothing else; and every fetch in flight, once it returns,
\* sends exactly one patch message, which carries the field's fieldId and
\* sessionId and the fetched result.
C22_PatchFetchesOnceAndSendsOnePatch ==
    /\ \A f \in DOMAIN fields, d \in PatchData :
          (OpensPatchChannel(fields[f]) /\ fields[f].status = "waiting") =>
              onPatch(Cur, [sessionId |-> fields[f].sessionId,
                            fieldId |-> f, data |-> d])
                = [Cur EXCEPT !.fetching =
                      Append(@, [sessionId |-> fields[f].sessionId,
                                 fieldId |-> f, data |-> d])]
    /\ \A i \in DOMAIN fetching :
          LET sent == NewMessages(afterQuery(AfterFetch(i), fetching[i]))
          IN  /\ Cardinality(PatchesIn(sent)) = 1
              /\ \A k \in PatchesIn(sent) :
                    sent[k] = Msg("patch", fetching[i].sessionId,
                                  fetching[i].fieldId,
                                  Query(fetching[i].data))
              /\ fetching[i].sessionId
                    = fields[fetching[i].fieldId].sessionId

C22_Witness ==
    \E i \in DOMAIN fetching :
        /\ fields[fetching[i].fieldId].status = "waiting"
        /\ \E k \in DOMAIN out :
              out[k] = Msg("patch", fetching[i].sessionId,
                           fetching[i].fieldId, Query(fetching[i].data))

\* C23: when a fetch of an address field without an API key returns while
\* the field's resolve wait is pending, a warn message with the field's
\* fieldId and sessionId reports the missing key, the field's validator, its
\* waiter and its patch listener stay as they are, no field changes, and a
\* resolve message of the session with a value the validator accepts then
\* resolves the field with that value.
C23_MissingApiKeyWarnsOnly ==
    \A i \in DOMAIN fetching :
        LET f == fetching[i].fieldId
            E == afterQuery(AfterFetch(i), fetching[i])
            sent == NewMessages(E)
        IN  (fields[f].kind = "address" /\ ~fields[f].apiKey
             /\ fields[f].status = "waiting") =>
                /\ Cardinality(WarnsIn(sent)) = 1
                /\ \A k \in WarnsIn(sent) :
                      sent[k] = Msg("warn", fields[f].sessionId, f,
                                    MissingApiKey)
                /\ E.fieldValidators = fieldValidators
                /\ E.listeners = listeners
                /\ E.fields = fields
                /\ E.resolved = resolved
                /\ \A v \in InputValues :
                      (f \in DOMAIN fieldValidators
                       /\ addressDefaultValidator(v) = JsTrue) =>
                          ResolvedWith(
                              onResolve(E, ResolveMessage(
                                               fields[f].sessionId, f, v)),
                              f, v)

C23_Witness ==
    \E f \in DOMAIN fields :
        /\ fields[f].kind = "address" /\ ~fields[f].apiKey
        /\ IsResolved(Cur, f)
        /\ \E k \in DOMAIN out :
              /\ out[k] = Msg("warn", fields[f].sessionId, f, MissingApiKey)
              /\ \E l \in DOMAIN out :
                    /\ k < l
                    /\ out[l] = Msg("warn", fields[f].sessionId, f, JsTrue)

\* C26: every address field that has resolved returned a submitted value
\* as it was submitted if pick was not supplied, and pick(v) for a submitted
\* value v that the address validator accepts if pick was supplied.
C26_PickAppliedOnceToValidatedValue ==
    \A f \in DOMAIN fields :
        (fields[f].kind = "address" /\ IsResolved(Cur, f)) =>
            IF fields[f].pick
            THEN \E v \in InputValues :
                    /\ addressDefaultValidator(v) = JsTrue
                    /\ fields[f].result = pick(v)
            ELSE fields[f].result \in InputValues

\* C27: every field that has resolved returned a value that its validator
\* accepted: a value the default validator of its kind accepts, or, for a
\* field with a caller-supplied validator, after that validator answered true
\* to a submission of the field's session.
C27_ResolvesOnlyWithAcceptedValue ==
    \A f \in DOMAIN fields :
        IsResolved(Cur, f) =>
            IF fields[f].custom
            THEN \E k \in DOMAIN out :
                    out[k] = Msg("warn", fields[f].sessionId, f, JsTrue)
            ELSE \E v \in InputValues :
                    /\ defaultValidator(fields[f].kind, v) = JsTrue
                    /\ fields[f].result = opResult(fields[f], v)

\* C28: handling a resolve message whose value the field's default
\* validator accepts sends no warn message, and no warn message sent
\* carries the verdict true.
C28_WarnOnlyOnRejection ==
    /\ \A k \in DOMAIN out : out[k].action = "warn" => out[k].data # JsTrue
    /\ \A f \in DOMAIN fields, v \in InputValues :
          (f \in DOMAIN fieldValidators /\ ~fields[f].custom
           /\ defaultValidator(fields[f].kind, v) = JsTrue) =>
              WarnsIn(NewMessages(
                  onResolve(Cur, ResolveMessage(fields[f].sessionId, f, v))))
                = {}

\* C29: no field resolves twice, and once a field has resolved, a validation
\* of a submission for it that is still in flight sends no warn message when
\* it returns, whatever the validator answers.
C29_AtMostOneResolveAndNoWarnAfter ==
    /\ \A i, j \in DOMAIN resolved : resolved[i] = resolved[j] => i = j
    /\ \A i \in DOMAIN validating, r \in CustomResults :
          IsResolved(Cur, validating[i].fieldId) =>
              WarnsIn(NewMessages(
                  afterValidation(AfterAwait(i), validating[i], r))) = {}

\* C30: once an autocomplete or address field has resolved, a fetch for it
\* that is still in flight sends no patch message when it returns.
C30_NoPatchFromFetchInFlightAtResolve ==
    \A i \in DOMAIN fetching :
        (fields[fetching[i].fieldId].kind \in {"autocomplete", "address"}
         /\ IsResolved(Cur, fetching[i].fieldId)) =>
            PatchesIn(NewMessages(afterQuery(AfterFetch(i), fetching[i])))
              = {}

\* The messages sent so far that carry fieldId f, in order.
SentFor(f) == SelectSeq(out, LAMBDA m : m.fieldId = f)

\* The steps of the callback that invocation w has run and that called
\* method `method` of a handle.
CallsMade(w, method) ==
    {i \in 1..wf[w].pc :
        /\ i \in DOMAIN program
        /\ program[i].type = "handle"
        /\ program[i].method = method}

\* C24: every display element (progress, loading, heading, paragraph) has
\* exactly one render message, has no validator and no listener on its
\* resolve or patch key, and no invocation of the callback rests at a display
\* operation; the messages with its fieldId are that render followed by one
\* patch per increment or updateMessage call and one destroy per destroy
\* call made on its handle, all with the session's id, and a progress
\* element's patches carry the count of increments so far.
C24_DisplayElementsSendOneMessagePerCall ==
    /\ \A w \in DOMAIN wf : ~Settled(Cur, w)
    /\ \A f \in DOMAIN fields :
          fields[f].kind \in DisplayKinds =>
              LET sent == SentFor(f)
                  w == CHOOSE w \in DOMAIN wf : wf[w].handle = f
                  patches == CallsMade(w, "increment")
                                 \cup CallsMade(w, "updateMessage")
              IN  /\ Len(sent) >= 1
                  /\ sent[1] = Msg("render", fields[f].sessionId, f,
                                   JsStr(fields[f].kind))
                  /\ \A k \in DOMAIN sent :
                        /\ sent[k].sessionId = fields[f].sessionId
                        /\ k > 1 => sent[k].action \in {"patch", "destroy"}
                  /\ Cardinality(PatchesIn(sent)) = Cardinality(patches)
                  /\ Cardinality({k \in DOMAIN sent :
                                     sent[k].action = "destroy"})
                        = Cardinality(CallsMade(w, "destroy"))
                  /\ fields[f].kind = "progress" =>
                        \A n \in 1..Cardinality(patches) :
                            \E k \in PatchesIn(sent) :
                                sent[k].data = JsNum(ToString(n))
                  /\ f \notin DOMAIN fieldValidators
                  /\ \A type \in {"resolve", "patch"} :
                        listenersOf(Cur, eventId(fields[f].sessionId, f,
                                                 type)) = {}
                  /\ fields[f].status = "display"

C24_Witness ==
    \E f \in DOMAIN fields :
        /\ fields[f].kind = "progress"
        /\ \E i, j, k \in DOMAIN out :
              /\ i < j /\ j < k
              /\ out[i] = Msg("patch", fields[f].sessionId, f, JsNum("1"))
              /\ out[j] = Msg("patch", fields[f].sessionId, f, JsNum("2"))
              /\ out[k] = Msg("destroy", fields[f].sessionId, f, JsUndefined)
    /\ \E g \in DOMAIN fields : IsResolved(Cur, g)

\* C32: a group call that has returned returned the results of its own
\* fields, all of them resolved; and whenever two group calls of one session
\* are outstanding, the completion event of one leaves the other group, its
\* waiter and the invocation awaiting it as they are.
C32_ConcurrentGroupsIndependent ==
    /\ \A g \in DOMAIN groups :
          groups[g].returned =>
              /\ AllResolved(Cur, groups[g].fields)
              /\ groups[g].results = PromiseAll(Cur, groups[g].fields)
    /\ \A g \in DOMAIN groups, h \in DOMAIN groups :
          (g # h /\ groups[g].sessionId = groups[h].sessionId
           /\ ~groups[g].returned /\ ~groups[h].returned) =>
              LET E == emitGroup(Cur, g, PromiseAll(Cur, groups[g].fields))
                  key == groupEventId(groups[h].sessionId, h)
              IN  /\ E.groups[h] = groups[h]
                  /\ listenersOf(E, key) = listenersOf(Cur, key)
                  /\ listenersOf(Cur, key) # {}
                  /\ \A w \in DOMAIN wf :
                        Awaits(Cur, w, "group", h) => E.wf[w] = wf[w]

C32_Witness ==
    \E g \in DOMAIN groups, h \in DOMAIN groups :
        /\ g # h /\ groups[g].sessionId = groups[h].sessionId
        /\ groups[g].returned /\ groups[g].fields # <<>>
        /\ ~groups[h].returned /\ groups[h].phase = "awaiting"
        /\ ~AllResolved(Cur, groups[h].fields)

\* C33: for every sessionId, at most one invocation of the workflow is
\* running, that is, has neither returned nor thrown.
C33_OneWorkflowPerSession ==
    \A w \in DOMAIN wf, x \in DOMAIN wf :
        (wf[w].sessionId = wf[x].sessionId
         /\ ~Returned(w) /\ ~Rejected(w)
         /\ ~Returned(x) /\ ~Rejected(x)) => w = x

\* The messages of a sequence that are no warn messages.
NoWarns(msgs) == SelectSeq(msgs, LAMBDA m : m.action # "warn")

\* C36: when a resolve message with an accepted value resolves a pending
\* standalone field, the first message the engine sends, after the warn that
\* answers the submission, is the destroy message of that field: it comes
\* before the next render and before anything else the workflow sends.
C36_DestroyBeforeWorkflowResumes ==
    /\ \A f \in DOMAIN fields, v \in InputValues :
          (fields[f].standalone /\ fields[f].status = "waiting"
           /\ f \in DOMAIN fieldValidators /\ ~fields[f].custom
           /\ defaultValidator(fields[f].kind, v) = JsTrue) =>
              LET sent == NoWarns(NewMessages(
                      onResolve(Cur, ResolveMessage(fields[f].sessionId,
                                                    f, v))))
              IN  /\ sent # <<>>
                  /\ sent[1] = Msg("destroy", fields[f].sessionId, f,
                                   JsUndefined)
    /\ \A i \in DOMAIN validating :
          LET f == validating[i].fieldId
              sent == NoWarns(NewMessages(
                          afterValidation(AfterAwait(i), validating[i],
                                          JsTrue)))
          IN  (f \in DOMAIN fields /\ fields[f].standalone
               /\ fields[f].status = "waiting"
               /\ validating[i].sessionId = fields[f].sessionId) =>
                  /\ sent # <<>>
                  /\ sent[1] = Msg("destroy", fields[f].sessionId, f,
                                   JsUndefined)

\* The group call g has returned to its caller.
GroupReturned(g) == g \in DOMAIN groups /\ groups[g].returned

\* The promises of the elements of group call g are all fulfilled.
GroupFulfilled(g) ==
    g \in DOMAIN groups /\ AllResolved(Cur, groups[g].fields)

\* C31: as the event loop runs every setImmediate callback, a group call
\* whose elements' promises are all fulfilled eventually returns, also when
\* its builder returned no element or display elements only; and no group
\* key is ever emitted without a waiter.
C31_GroupCallEventuallyReturns ==
    /\ \A g \in 1..MaxGroupCalls : GroupFulfilled(g) ~> GroupReturned(g)
    /\ [](\A g \in DOMAIN groups :
             groups[g].phase = "emitted" => groups[g].returned)

C31_Witness ==
    \E g \in DOMAIN groups :
        /\ groups[g].returned
        /\ Len(groups[g].fields) = MaxFields
        /\ \A i \in DOMAIN groups[g].fields :
              fields[groups[g].fields[i]].kind \in DisplayKinds

\* The patch messages sent so far for field f, in order.
PatchesFor(f) == SelectSeq(SentFor(f), LAMBDA m : m.action = "patch")

\* C38: for every progress element, the k-th patch message sent for it
\* carries k as patchedState, beyond the max option too, and its counter is
\* the number of those patches; a call of increment, before or after the
\* handle's destroy, sends exactly one patch with the counter plus one and
\* changes no other element.
C38_ProgressCounterCountsIncrements ==
    \A f \in DOMAIN fields :
        fields[f].kind = "progress" =>
            /\ \A k \in DOMAIN PatchesFor(f) :
                  PatchesFor(f)[k] = Msg("patch", fields[f].sessionId, f,
                                         JsNum(ToString(k)))
            /\ fields[f].counter = Len(PatchesFor(f))
            /\ LET E == callHandle(Cur, f, "increment")
               IN  /\ NewMessages(E)
                        = <<Msg("patch", fields[f].sessionId, f,
                                JsNum(ToString(fields[f].counter + 1)))>>
                   /\ E.fields[f].counter = fields[f].counter + 1
                   /\ \A g \in DOMAIN fields \ {f} : E.fields[g] = fields[g]

C38_Witness ==
    \E f \in DOMAIN fields, g \in DOMAIN fields :
        /\ f # g
        /\ fields[f].kind = "progress" /\ fields[g].kind = "progress"
        /\ fields[f].counter > ProgressMax
        /\ \E i \in DOMAIN out, j \in DOMAIN out :
              /\ i < j
              /\ out[i] = Msg("destroy", fields[f].sessionId, f, JsUndefined)
              /\ out[j] = Msg("patch", fields[f].sessionId, f,
                              JsNum(ToString(fields[f].counter)))

\* C37: two distinct triples (sessionId, fieldId, type) never have the same
\* key.
C37_EventIdInjective ==
    (DOMAIN verdicts = {1, 2} /\ input[1] # input[2]) =>
        verdicts[1] # verdicts[2]

C35_RecordedStepIsPending ==
    \A s \in DOMAIN sessionStepStates :
        fields[sessionStepStates[s]].status = "waiting"
====
